---- MODULE Spec2Model ----
(***************************************************************************)
(* codeforces-reminder: one run of main (load, fetch, reconcile, notify,   *)
(* save) against the files contests.json, contests.tmp and error_log.txt,  *)
(* repeated over several runs of the binary.                               *)
(***************************************************************************)
EXTENDS Integers, Sequences, FiniteSets, TLC

\* ------------------------------------------------------------------ bounds

\* Contest ids the remote source may report: 1..MaxId.
MaxId == 2
\* Number of runs of the binary (the scheduler starts one after the other).
MaxRuns == 2
\* Number of faults of the environment over all runs: an I/O error of the
\* file system, or the process being killed.
MaxFaults == 2

\* ------------------------------------------------------- program constants

LOG_MAX_LINE_NUMBER == 1000
\* "*start -= 1800": the reminder is set 30 minutes earlier.
LEAD_SECONDS == 1800
\* std::process::exit(1)
EXIT_FAILURE == 1
\* exit status of a Rust process whose main thread panicked
EXIT_PANIC == 101
\* exit status when main returns
EXIT_SUCCESS == 0

\* ----------------------------------------------------------------- Contest

Ids == 1..MaxId

\* Option<T>: None is <<>>, Some(x) is <<x>>. The exit status of a process is
\* an Option too: None while it runs and when a signal killed it.
None == <<>>
Some(x) == <<x>>

\* An i64, start_time_seconds: the number anchor + off, for an anchor among
\* 0, i64::MIN and i64::MAX and an offset far smaller than the distance
\* between the anchors. The i64 values are those at or above MIN and at or
\* below MAX; the other records name the numbers just outside the type.
I64(anchor, off) == [anchor |-> anchor, off |-> off]

InI64(v) ==
    CASE v.anchor = "ZERO" -> TRUE
      [] v.anchor = "MIN" -> v.off >= 0
      [] v.anchor = "MAX" -> v.off <= 0

\* v - n as a number.
Minus(v, n) == I64(v.anchor, v.off - n)

\* v - n in i64 without overflow checks: a result below i64::MIN by k is
\* the value i64::MAX + 1 - k.
WrappingSub(v, n) ==
    IF InI64(Minus(v, n)) THEN Minus(v, n) ELSE I64("MAX", Minus(v, n).off + 1)

\* Utc.timestamp_opt(secs, 0) is a date: chrono's dates span some 262000
\* years around 0, far from either end of i64.
InChronoRange(v) == v.anchor = "ZERO"

\* struct Contest
Contest(id, name, phase, start, desc) ==
    [id |-> id, name |-> name, phase |-> phase,
     start_time_seconds |-> start, description |-> desc]

\* A comparison of all the fields, as a derived PartialEq would make.
ContestEqDerived(a, b) == a = b

\* impl PartialEq for Contest: comparison based on id.
ContestEq(a, b) == a.id = b.id

\* HashSet<Contest>::contains, with the id-based Hash and PartialEq.
Contains(set, c) == \E x \in set : ContestEq(x, c)

\* The ids of a collection of contests.
IdsOf(set) == {c.id : c \in set}

\* The elements of a Vec.
Elems(vec) == {vec[i] : i \in 1..Len(vec)}

\* The contests of a set by ascending id.
RECURSIVE Ascending(_)
Ascending(set) ==
    IF set = {}
    THEN <<>>
    ELSE LET first == CHOOSE c \in set : \A d \in set : c.id <= d.id
         IN  <<first>> \o Ascending(set \ {first})

Reverse(vec) == [i \in 1..Len(vec) |-> vec[Len(vec) + 1 - i]]

\* The orders in which a HashSet is iterated: the order depends on the keys
\* of its RandomState, which are drawn here from two, one iterating by
\* ascending and one by descending id.
IterOrders(set) == {Ascending(set), Reverse(Ascending(set))}

\* collect::<HashSet<Contest>>() of a Vec: insert keeps the first of equal
\* elements.
CollectHashSet(vec) ==
    {vec[i] : i \in {j \in 1..Len(vec) : \A k \in 1..(j - 1) : ~ContestEq(vec[k], vec[j])}}

\* ------------------------------------------------------------ JSON encoding

\* #[serde(rename_all = "SCREAMING_SNAKE_CASE")] enum Phase
PhaseToJson(p) ==
    CASE p = "Before" -> "BEFORE"
      [] p = "Coding" -> "CODING"
      [] p = "PendingSystemTest" -> "PENDING_SYSTEM_TEST"
      [] p = "SystemTest" -> "SYSTEM_TEST"
      [] p = "Finished" -> "FINISHED"

PhaseFromJson(s) ==
    CASE s = "BEFORE" -> "Before"
      [] s = "CODING" -> "Coding"
      [] s = "PENDING_SYSTEM_TEST" -> "PendingSystemTest"
      [] s = "SYSTEM_TEST" -> "SystemTest"
      [] s = "FINISHED" -> "Finished"

\* An Option as a JSON value: null, or the value.
OptToJson(o) == IF o = None THEN [json |-> "null"] ELSE [json |-> "value", v |-> o[1]]
OptFromJson(j) == IF j.json = "null" THEN None ELSE Some(j.v)

\* #[serde(rename_all = "camelCase")] struct Contest, as one JSON object.
ContestToJson(c) ==
    [tok |-> "object", id |-> c.id, name |-> c.name, phase |-> PhaseToJson(c.phase),
     startTimeSeconds |-> OptToJson(c.start_time_seconds),
     description |-> OptToJson(c.description)]

\* A Contest read with the field names as they are in Rust: the camelCase
\* key startTimeSeconds is not recognised and the Option stays None.
ContestFromJsonSnakeCase(o) ==
    Contest(o.id, o.name, PhaseFromJson(o.phase), None, OptFromJson(o.description))

ContestFromJson(o) ==
    Contest(o.id, o.name, PhaseFromJson(o.phase),
            OptFromJson(o.startTimeSeconds), OptFromJson(o.description))

ArrayOpen == [tok |-> "["]
ArrayClose == [tok |-> "]"]

\* serde_json::to_string_pretty(&Vec<Contest>): the text, as a sequence of
\* tokens (a partial write is a proper prefix of it).
Serialize(vec) ==
    <<ArrayOpen>> \o [i \in 1..Len(vec) |-> ContestToJson(vec[i])] \o <<ArrayClose>>

\* Whether serde_json::from_str::<HashSet<Contest>> accepts the text.
Parses(text) ==
    /\ Len(text) >= 2
    /\ text[1] = ArrayOpen
    /\ text[Len(text)] = ArrayClose
    /\ \A i \in 2..(Len(text) - 1) : text[i].tok = "object"

\* serde_json::from_str::<HashSet<Contest>> of a text it accepts.
Deserialize(text) ==
    CollectHashSet([i \in 1..(Len(text) - 2) |-> ContestFromJson(text[i + 1])])

\* Where a write of a text that does not complete may stop: before its first
\* token, or before its last.
Stops(text) == {0, Len(text) - 1}

\* What a write of `text` leaves in a file that holds the first `have` tokens
\* of it already, when the write does not complete.
Partial(have, text) == {SubSeq(text, 1, n) : n \in {have} \cup {m \in Stops(text) : m > have}}

\* -------------------------------------------------------------- file system

\* A path that does not exist.
NoFile == [exists |-> FALSE, data |-> <<>>]
File(text) == [exists |-> TRUE, data |-> text]

VARIABLES
    contests_file,     \* the live path contests.json
    tmp_file,          \* the temporary path contests.tmp
    log_file,          \* error_log.txt: [exists, lines, torn]
    pc,                \* where the running process is; "exited" or "killed" after it
    exit_code,         \* Option: the exit status of the process
    run,               \* how many times the binary has been started
    faults,            \* how many faults the environment has injected
    local_contests,    \* main: local_contests
    current_upcoming,  \* main: current_upcoming
    new_contests,      \* main: new_contests
    next_new,          \* main: position of the for loop in new_contests
    local_upcoming,    \* main: local_upcoming
    serialized,        \* save_contests_locally: serialized
    at_load,           \* history: contests.json as fetch_local_upcoming_contests found it
    pre_save,          \* history: contests.json when save_contests_locally was called
    save_result,       \* history: "none" (not called), "running", or what it returned: "ok", "err"
    notified,          \* history: the contests osascript was run for, in order
    reminder_failed,   \* history: osascript failed for a contest of this run
    handed,            \* history: Option, the contest passed to create_reminder last
    last_entry,        \* history: Option, the entry handed to log_error in the latest step
    log_before,        \* history: error_log.txt before the latest step
    panicked,          \* history: an expect() of log_error failed
    ended_in,          \* history: where the process was when it exited or was killed
    prev_completed,    \* history: the previous run saved and returned from main
    prev_remote,       \* history: the ids of current_upcoming of that run
    prev_saved,        \* history: the contests that run handed to save_contests_locally
    prev_unsaved,      \* history: the previous run finished its for loop and did not rename
    prev_upcoming,     \* history: current_upcoming of that run
    prev_new,          \* history: the ids that run classified as new
    prev_at_load,      \* history: contests.json as that run found it
    prev_faults,       \* history: the faults injected before this run started
    paths,             \* two instances: the inode contests.json and contests.tmp name, 0 if none
    inodes,            \* two instances: the text each inode of the file system holds
    instances,         \* two instances: the state of each process
    prior              \* two instances, history: contests.json before either started

vars ==
    <<contests_file, tmp_file, log_file, pc, exit_code, run, faults, local_contests,
      current_upcoming, new_contests, next_new, local_upcoming, serialized, at_load,
      pre_save, save_result, notified, reminder_failed, handed, last_entry, log_before,
      panicked, ended_in, prev_completed, prev_remote, prev_saved, prev_unsaved,
      prev_upcoming, prev_new, prev_at_load, prev_faults, paths, inodes, instances, prior>>

\* What a second instance of the program running at the same time adds.
shared == <<paths, inodes, instances, prior>>

\* The instance that runs alone, and its files.
alone ==
    <<contests_file, tmp_file, log_file, pc, exit_code, run, faults, local_contests,
      current_upcoming, new_contests, next_new, local_upcoming, serialized, at_load,
      pre_save, save_result, notified, reminder_failed, handed, last_entry, log_before,
      panicked, ended_in, prev_completed, prev_remote, prev_saved, prev_unsaved,
      prev_upcoming, prev_new, prev_at_load, prev_faults>>

files == <<contests_file, tmp_file>>
memory == <<local_contests, current_upcoming, new_contests, next_new, local_upcoming, serialized>>
previous ==
    <<prev_completed, prev_remote, prev_saved, prev_unsaved, prev_upcoming, prev_new,
      prev_at_load, prev_faults>>

\* The memory of a process that has not run yet, or is gone.
ClearMemory ==
    /\ local_contests' = {}
    /\ current_upcoming' = {}
    /\ new_contests' = <<>>
    /\ next_new' = 1
    /\ local_upcoming' = <<>>
    /\ serialized' = <<>>

\* ---------------------------------------------------------------- log_error

\* error_log.txt: whether it exists, the number of its lines that end in a
\* newline, and whether an unfinished line (the start of an entry, left by a
\* write that failed part-way) follows them.
NoLog == [exists |-> FALSE, lines |-> 0, torn |-> FALSE]
EmptyLog == [exists |-> TRUE, lines |-> 0, torn |-> FALSE]

\* log.lines().count(): str::lines counts an unfinished last line too.
LineCount(log) == log.lines + (IF log.torn THEN 1 ELSE 0)

\* file.write_all of one entry, "<time>: <msg>\n" with msg a single line,
\* completed: the entry ends whatever line was unfinished.
Appended(log) == [exists |-> TRUE, lines |-> log.lines + 1, torn |-> FALSE]

\* What a write_all that fails may leave: nothing of the entry, or its start.
Torn(log) == {log, [log EXCEPT !.torn = TRUE]}

\* log_error without the reset of a log that is over the threshold.
log_error_never_emptied(log) ==
    IF log.exists
    THEN {[ok |-> FALSE, file |-> f] : f \in {log} \cup Torn(log)}
         \cup {[ok |-> TRUE, file |-> Appended(log)]}
    ELSE {[ok |-> FALSE, file |-> f] : f \in {log} \cup Torn(EmptyLog)}
         \cup {[ok |-> TRUE, file |-> Appended(EmptyLog)]}

\* log_error with its failures suppressed: it returns whatever happened.
log_error_suppressing(log) ==
    IF log.exists
    THEN LET opened == IF LineCount(log) > LOG_MAX_LINE_NUMBER THEN EmptyLog ELSE log
         IN  {[ok |-> TRUE, file |-> f] : f \in {log} \cup Torn(opened)}
             \cup {[ok |-> TRUE, file |-> Appended(opened)]}
    ELSE {[ok |-> TRUE, file |-> f] : f \in {log} \cup Torn(EmptyLog)}
         \cup {[ok |-> TRUE, file |-> Appended(EmptyLog)]}

\* log_error(msg), msg a single line: every way the call can end. ok is
\* whether it returned; otherwise one of its expect() calls panicked. file
\* is error_log.txt afterwards: as it was when read_to_string or a
\* File::create failed, as opened (emptied when over the threshold) when the
\* open for appending failed, as write_all left it when that failed.
log_error(log) ==
    IF log.exists
    THEN LET opened == IF LineCount(log) > LOG_MAX_LINE_NUMBER THEN EmptyLog ELSE log
         IN  {[ok |-> FALSE, file |-> f] : f \in {log} \cup Torn(opened)}
             \cup {[ok |-> TRUE, file |-> Appended(opened)]}
    ELSE {[ok |-> FALSE, file |-> f] : f \in {log} \cup Torn(EmptyLog)}
         \cup {[ok |-> TRUE, file |-> Appended(EmptyLog)]}

\* The end of a step of the process: it goes on at nextPc, or has exited
\* with nextExit.
Goes(nextPc, nextExit) ==
    /\ pc' = nextPc
    /\ exit_code' = nextExit
    /\ ended_in' = IF nextPc = "exited" THEN pc ELSE ended_in

\* A step of the process that calls log_error(entry): when the call returns
\* the process goes on at nextPc, when it panics the process has exited with
\* the status of a panic. `used` is the number of faults the step met before
\* the call; a failure in log_error is one more.
Log(entry, nextPc, nextExit, used) ==
    \E o \in log_error(log_file) :
        /\ faults' = faults + used + (IF o.ok THEN 0 ELSE 1)
        /\ faults' <= MaxFaults
        /\ log_file' = o.file
        /\ log_before' = log_file
        /\ last_entry' = Some(entry)
        /\ panicked' = ~o.ok
        /\ IF o.ok THEN Goes(nextPc, nextExit) ELSE Goes("exited", Some(EXIT_PANIC))
        /\ UNCHANGED shared

\* A step of the process that does not call log_error.
Quiet(nextPc, nextExit, used) ==
    /\ faults' = faults + used
    /\ faults' <= MaxFaults
    /\ log_before' = log_file
    /\ last_entry' = None
    /\ UNCHANGED <<log_file, panicked, shared>>
    /\ Goes(nextPc, nextExit)

\* ---------------------------------------------- fetch_local_upcoming_contests

\* What fs::write(&path, "[]") leaves at the path when it fails: nothing
\* (the create failed) or a file holding less than the text.
FailedWrite(text) == {NoFile} \cup {File(p) : p \in Partial(0, text)}

\* A load that takes whatever it cannot parse for no contests.
LoadedOrEmpty(text) ==
    [ok |-> TRUE, contests |-> IF Parses(text) THEN Deserialize(text) ELSE {}]

\* serde_json::from_str(&contents) and the match on it: Ok(data) is
\* returned, Err(e) ends the process.
Loaded(text) ==
    IF Parses(text)
    THEN [ok |-> TRUE, contests |-> Deserialize(text)]
    ELSE [ok |-> FALSE, contests |-> {}]

fetch_local_upcoming_contests ==
    /\ pc = "load"
    /\ at_load' = contests_file
    /\ \/ /\ ~contests_file.exists
          /\ local_contests' = {}
          /\ \/ /\ contests_file' = File(Serialize(<<>>))
                /\ Quiet("fetch", None, 0)
             \/ /\ contests_file' \in FailedWrite(Serialize(<<>>))
                /\ Log(<<"Failed to create and write initial contests file", 0>>,
                       "fetch", None, 1)
       \/ /\ contests_file.exists
          /\ UNCHANGED <<contests_file, local_contests>>
          /\ Log(<<"Failed to read local contests file", 0>>, "exited", Some(EXIT_FAILURE), 1)
       \/ /\ contests_file.exists
          /\ UNCHANGED contests_file
          /\ LET data == Loaded(contests_file.data)
             IN  IF data.ok
                 THEN /\ local_contests' = data.contests
                      /\ Quiet("fetch", None, 0)
                 ELSE /\ UNCHANGED local_contests
                      /\ Log(<<"Failed to parse contests JSON", 0>>,
                             "exited", Some(EXIT_FAILURE), 0)
    /\ UNCHANGED <<tmp_file, run, current_upcoming, new_contests, next_new, local_upcoming,
                   serialized, pre_save, save_result, notified, reminder_failed, handed, previous>>

\* -------------------------------------------- fetch_current_upcoming_contests

\* What the remote source may report for one id.
RemoteContest(id, variant) ==
    CASE variant = 1 -> Contest(id, "A", "Before", Some(I64("ZERO", 2 * LEAD_SECONDS)), None)
      [] variant = 2 -> Contest(id, "B", "Before", None, Some("d"))
      [] variant = 3 -> Contest(id, "C", "Finished", Some(I64("ZERO", 2 * LEAD_SECONDS)), None)
      [] variant = 4 -> Contest(id, "A", "Before", Some(I64("MIN", 0)), None)
      [] variant = 5 -> Contest(id, "A", "Before", Some(I64("MAX", 0)), None)

Variants == 1..5

\* response.result: the contests of a response, each id at most once.
ResponseResults ==
    {r \in SUBSET {RemoteContest(id, v) : id \in Ids, v \in Variants} :
        \A a, b \in r : ContestEq(a, b) => a = b}

\* .filter(|contest| contest.phase == Phase::Before).collect::<HashSet<Contest>>()
UpcomingOf(result) == {c \in result : c.phase = "Before"}

\* The three failures of the fetch, as they are logged.
FetchFailures ==
    {"Could not retrieve online contest list",
     "Could not parse online contest JSON",
     "Codeforces response status FAILED"}

\* A fetch that logs its failure and goes on with no contests.
fetch_defaulting_to_empty ==
    /\ pc = "fetch"
    /\ \/ /\ current_upcoming' = {}
          /\ \E msg \in FetchFailures : Log(<<msg, 0>>, "reconcile", None, 0)
       \/ /\ \E result \in ResponseResults : current_upcoming' = UpcomingOf(result)
          /\ Quiet("reconcile", None, 0)
    /\ UNCHANGED <<files, run, local_contests, new_contests, next_new, local_upcoming,
                   serialized, at_load, pre_save, save_result, notified, reminder_failed, handed,
                   previous>>

fetch_current_upcoming_contests ==
    /\ pc = "fetch"
    /\ \/ /\ UNCHANGED current_upcoming
          /\ \E msg \in FetchFailures : Log(<<msg, 0>>, "exited", Some(EXIT_FAILURE), 0)
       \/ /\ \E result \in ResponseResults : current_upcoming' = UpcomingOf(result)
          /\ Quiet("reconcile", None, 0)
    /\ UNCHANGED <<files, run, local_contests, new_contests, next_new, local_upcoming,
                   serialized, at_load, pre_save, save_result, notified, reminder_failed, handed,
                   previous>>

\* ------------------------------------------------------------------- main

\* Every fetched contest taken for new.
NewOfAll(local, remote) == remote

\* A contest whose stored record has no start time taken for new again.
NewOfRetrying(local, remote) ==
    {c \in remote : \A x \in local : ContestEq(x, c) => x.start_time_seconds = None}

\* main, lines 36-40: the contests of current_upcoming not in local_contests.
NewOf(local, remote) == {c \in remote : ~Contains(local, c)}

\* The kept contests taken from the fetched set.
KeptOfRemote(local, remote) == {c \in remote : Contains(local, c)}

\* Every local contest kept.
KeptOfAll(local, remote) == local

\* The kept contests with the 1800 seconds subtracted once more.
KeptOfReadjusted(local, remote) ==
    {IF c.start_time_seconds = None
     THEN c
     ELSE [c EXCEPT !.start_time_seconds = Some(WrappingSub(@[1], LEAD_SECONDS))] :
        c \in {x \in local : Contains(remote, x)}}

\* main, lines 42-45: the contests of local_contests still in current_upcoming.
KeptOf(local, remote) == {c \in local : Contains(remote, c)}

reconcile ==
    /\ pc = "reconcile"
    /\ new_contests' \in IterOrders(NewOf(local_contests, current_upcoming))
    /\ local_upcoming' \in IterOrders(KeptOf(local_contests, current_upcoming))
    /\ next_new' = 1
    /\ Quiet("notify", None, 0)
    /\ UNCHANGED <<files, run, local_contests, current_upcoming, serialized, at_load,
                   pre_save, save_result, notified, reminder_failed, handed, previous>>

\* "*start -= 1800" overflows i64.
Overflows(contest) ==
    /\ contest.start_time_seconds # None
    /\ ~InI64(Minus(contest.start_time_seconds[1], LEAD_SECONDS))

\* main, lines 48-50: set the reminder 30 minutes earlier. When the
\* subtraction overflows this is the contest of a build without overflow
\* checks; a build with them panics instead.
Adjusted(contest) ==
    IF contest.start_time_seconds = None
    THEN contest
    ELSE [contest EXCEPT !.start_time_seconds = Some(WrappingSub(@[1], LEAD_SECONDS))]

\* create_reminder(contest): every way the call can go. dispatched is
\* whether osascript was run, entry what is handed to log_error ("" when
\* nothing is), unwrapped whether the unwrap() of timestamp_opt panicked.
create_reminder(contest) ==
    IF contest.start_time_seconds = None
    THEN {[dispatched |-> FALSE, entry |-> "Contest without start time", unwrapped |-> FALSE]}
    ELSE IF ~InChronoRange(contest.start_time_seconds[1])
    THEN {[dispatched |-> FALSE, entry |-> "", unwrapped |-> TRUE]}
    ELSE {[dispatched |-> TRUE, entry |-> "", unwrapped |-> FALSE],
          [dispatched |-> TRUE, entry |-> "Failed to run osascript", unwrapped |-> FALSE],
          [dispatched |-> TRUE, entry |-> "Failed to add reminder", unwrapped |-> FALSE]}

\* One iteration of the for loop of main. handed is the contest passed to
\* create_reminder, if the iteration got that far.
notify ==
    /\ pc = "notify"
    /\ next_new <= Len(new_contests)
    /\ LET contest == Adjusted(new_contests[next_new])
       IN  \/ /\ Overflows(new_contests[next_new])     \* "attempt to subtract with overflow"
              /\ handed' = None
              /\ Quiet("exited", Some(EXIT_PANIC), 0)
              /\ UNCHANGED <<notified, reminder_failed, local_upcoming, next_new>>
           \/ \E r \in create_reminder(contest) :
                 /\ handed' = Some(contest)
                 /\ notified' = IF r.dispatched THEN Append(notified, contest) ELSE notified
                 /\ reminder_failed' = (reminder_failed \/ (r.dispatched /\ r.entry # ""))
                 /\ IF r.unwrapped
                    THEN Quiet("exited", Some(EXIT_PANIC), 0)
                    ELSE IF r.entry = ""
                    THEN Quiet("notify", None, 0)
                    ELSE Log(<<r.entry, contest.id>>, "notify", None, 0)
                 /\ IF pc' = "notify"
                    THEN /\ local_upcoming' = Append(local_upcoming, contest)
                         /\ next_new' = next_new + 1
                    ELSE UNCHANGED <<local_upcoming, next_new>>
    /\ UNCHANGED <<files, run, local_contests, current_upcoming, new_contests, serialized,
                   at_load, pre_save, save_result, previous>>

\* ------------------------------------------------------ save_contests_locally

\* An I/O error made save_contests_locally return Err(e) to main, which logs
\* it and returns.
SaveFailed ==
    /\ save_result' = "err"
    /\ Log(<<"Failed to save local contests atomically", 0>>, "exited", Some(EXIT_SUCCESS), 1)

\* A File::create on the live path itself.
CreateInPlace(tmp, live) == [tmp |-> tmp, live |-> File(<<>>)]

\* path.with_extension("tmp") and File::create(&temp_path): the temporary
\* file exists and is empty, the live path is another path.
Create(tmp, live) == [tmp |-> File(<<>>), live |-> live]

\* save_contests_locally up to File::create(&temp_path): serialize, then
\* create (or truncate) the temporary file.
save_contests_locally ==
    /\ pc = "notify"
    /\ next_new > Len(new_contests)
    /\ pre_save' = contests_file
    /\ \/ /\ UNCHANGED <<files, serialized>>       \* to_string_pretty or File::create failed
          /\ SaveFailed
       \/ /\ serialized' = Serialize(local_upcoming)
          /\ tmp_file' = Create(tmp_file, contests_file).tmp
          /\ contests_file' = Create(tmp_file, contests_file).live
          /\ save_result' = "running"
          /\ Quiet("created", None, 0)
    /\ UNCHANGED <<run, local_contests, current_upcoming, new_contests, next_new,
                   local_upcoming, at_load, notified, reminder_failed, handed, previous>>

\* writer.write_all(data.as_bytes()): the BufWriter keeps the bytes when
\* they fit its buffer, and writes them through to the file when not.
write_all ==
    /\ pc = "created"
    /\ \/ /\ tmp_file' \in {File(<<>>), File(serialized)}
          /\ save_result' = save_result
          /\ Quiet("buffered", None, 0)
       \/ /\ tmp_file' \in {File(p) : p \in Partial(0, serialized)}
          /\ SaveFailed
    /\ UNCHANGED <<contests_file, run, memory, at_load, pre_save, notified, reminder_failed, handed,
                   previous>>

\* writer.flush(): the bytes the BufWriter kept reach the file.
flush ==
    /\ pc = "buffered"
    /\ \/ /\ tmp_file' = File(serialized)
          /\ save_result' = save_result
          /\ Quiet("flushed", None, 0)
       \/ /\ tmp_file.data # serialized
          /\ tmp_file' \in {File(p) : p \in Partial(Len(tmp_file.data), serialized)}
          /\ SaveFailed
    /\ UNCHANGED <<contests_file, run, memory, at_load, pre_save, notified, reminder_failed, handed,
                   previous>>

\* writer.get_ref().sync_all()
sync_all ==
    /\ pc = "flushed"
    /\ \/ /\ save_result' = save_result
          /\ Quiet("synced", None, 0)
       \/ SaveFailed
    /\ UNCHANGED <<files, run, memory, at_load, pre_save, notified, reminder_failed, handed, previous>>

\* A rename that leaves the live path as it was.
RenamedNowhere(tmp, live) == [live |-> live, tmp |-> NoFile]

\* fs::rename(&temp_path, &path): on success the live path holds what the
\* temporary path held, and the temporary path is gone.
Renamed(tmp, live) == [live |-> tmp, tmp |-> NoFile]

\* fs::rename, then Ok(()) and the return of main.
rename ==
    /\ pc = "synced"
    /\ \/ /\ contests_file' = Renamed(tmp_file, contests_file).live
          /\ tmp_file' = Renamed(tmp_file, contests_file).tmp
          /\ save_result' = "ok"
          /\ Quiet("exited", Some(EXIT_SUCCESS), 0)
       \/ /\ UNCHANGED files
          /\ SaveFailed
    /\ UNCHANGED <<run, memory, at_load, pre_save, notified, reminder_failed, handed, previous>>

\* -------------------------------------------------------------- environment

\* The process is gone without an exit status; so is its memory (what the
\* for loop was working on is kept as history for the next run to compare).
Killed ==
    /\ faults < MaxFaults
    /\ faults' = faults + 1
    /\ pc' = "killed"
    /\ ended_in' = pc
    /\ IF pc \in {"notify", "created", "buffered", "flushed", "synced"}
       THEN /\ local_contests' = {}
            /\ local_upcoming' = <<>>
            /\ serialized' = <<>>
            /\ UNCHANGED <<current_upcoming, new_contests, next_new>>
       ELSE ClearMemory
    /\ last_entry' = None
    /\ log_before' = log_file
    /\ UNCHANGED <<log_file, exit_code, run, at_load, pre_save, save_result, notified,
                   reminder_failed, handed, panicked, previous, shared>>

\* The process is killed (a signal, a power loss) between two steps.
kill ==
    /\ pc \notin {"exited", "killed"}
    /\ Killed
    /\ UNCHANGED files

\* The process is killed inside a write: inside fs::write of the first run,
\* or inside write_all or flush of save_contests_atomically. The file was
\* created and its text is not complete.
kill_in_write ==
    /\ \/ /\ pc = "load"
          /\ ~contests_file.exists
          /\ contests_file' \in {File(p) : p \in Partial(0, Serialize(<<>>))}
          /\ UNCHANGED tmp_file
       \/ /\ pc \in {"created", "buffered"}
          /\ tmp_file.data # serialized
          /\ tmp_file' \in {File(p) : p \in Partial(Len(tmp_file.data), serialized)}
          /\ UNCHANGED contests_file
    /\ Killed

\* The run that has ended finished its for loop and did not get to rename
\* contests.tmp: save_contests_locally returned Err, or the process was killed
\* between the end of the loop and the rename.
Unsaved ==
    \/ pc = "exited" /\ save_result = "err"
    \/ /\ pc = "killed"
       /\ ended_in \in {"notify", "created", "buffered", "flushed", "synced"}
       /\ next_new > Len(new_contests)

\* The scheduler starts the binary again.
start ==
    /\ pc \in {"exited", "killed"}
    /\ run < MaxRuns
    /\ run' = run + 1
    /\ pc' = "load"
    /\ exit_code' = None
    /\ ended_in' = ""
    /\ prev_completed' = (pc = "exited" /\ save_result = "ok")
    /\ prev_unsaved' = Unsaved
    /\ prev_remote' = IF (pc = "exited" /\ save_result = "ok") \/ Unsaved
                      THEN IdsOf(current_upcoming) ELSE {}
    /\ prev_saved' = IF pc = "exited" /\ save_result = "ok" THEN Elems(local_upcoming) ELSE {}
    /\ prev_upcoming' = IF Unsaved THEN current_upcoming ELSE {}
    /\ prev_new' = IF Unsaved THEN IdsOf(Elems(new_contests)) ELSE {}
    /\ prev_at_load' = IF Unsaved THEN at_load ELSE NoFile
    /\ prev_faults' = faults
    /\ ClearMemory
    /\ at_load' = NoFile
    /\ pre_save' = NoFile
    /\ save_result' = "none"
    /\ notified' = <<>>
    /\ reminder_failed' = FALSE
    /\ handed' = None
    /\ last_entry' = None
    /\ log_before' = log_file
    /\ panicked' = FALSE
    /\ UNCHANGED <<files, log_file, faults, shared>>

\* Everything but the three files and the state of the process.
Fresh ==
    /\ exit_code = None
    /\ run = 1
    /\ faults = 0
    /\ local_contests = {}
    /\ current_upcoming = {}
    /\ new_contests = <<>>
    /\ next_new = 1
    /\ local_upcoming = <<>>
    /\ serialized = <<>>
    /\ at_load = NoFile
    /\ pre_save = NoFile
    /\ save_result = "none"
    /\ notified = <<>>
    /\ reminder_failed = FALSE
    /\ handed = None
    /\ last_entry = None
    /\ log_before = NoLog
    /\ panicked = FALSE
    /\ ended_in = ""
    /\ prev_completed = FALSE
    /\ prev_remote = {}
    /\ prev_saved = {}
    /\ prev_unsaved = FALSE
    /\ prev_upcoming = {}
    /\ prev_new = {}
    /\ prev_at_load = NoFile
    /\ prev_faults = 0

\* No second instance.
Alone ==
    /\ paths = [live |-> 0, tmp |-> 0]
    /\ inodes = <<>>
    /\ instances = <<>>
    /\ prior = NoFile

\* The first run on a machine that holds none of the three files.
Init ==
    /\ contests_file = NoFile
    /\ tmp_file = NoFile
    /\ log_file = NoLog
    /\ pc = "load"
    /\ Fresh
    /\ Alone

Next ==
    \/ fetch_local_upcoming_contests
    \/ fetch_current_upcoming_contests
    \/ reconcile
    \/ notify
    \/ save_contests_locally
    \/ write_all
    \/ flush
    \/ sync_all
    \/ rename
    \/ kill
    \/ kill_in_write
    \/ start

Spec == Init /\ [][Next]_vars

\* ------------------------------------------- log_error, call after call

\* One call of log_error, by whatever process: a call that panics ends its
\* process, and the next call is that of a later run.
log_error_call ==
    /\ pc = "log_error"
    /\ \E o \in log_error(log_file) :
          /\ log_file' = o.file
          /\ panicked' = ~o.ok
    /\ log_before' = log_file
    /\ last_entry' = Some(<<"msg", 0>>)
    /\ UNCHANGED <<files, pc, exit_code, run, faults, memory, at_load, pre_save, save_result,
                   notified, reminder_failed, handed, ended_in, previous, shared>>

InitLog ==
    /\ contests_file = NoFile
    /\ tmp_file = NoFile
    /\ log_file = NoLog
    /\ pc = "log_error"
    /\ Fresh
    /\ Alone

NextLog == log_error_call

SpecLog == InitLog /\ [][NextLog]_vars

\* -------------------------- the classification and the encoding, by themselves

Phases == {"Before", "Coding", "PendingSystemTest", "SystemTest", "Finished"}

\* Records of one id that differ in name, phase, start time and description;
\* records of different ids with the same variant differ in the id only.
Record(id, variant) ==
    CASE variant = 1 -> Contest(id, "A", "Before", Some(I64("ZERO", 2 * LEAD_SECONDS)), None)
      [] variant = 2 -> Contest(id, "B", "Coding", None, Some("d"))
      [] variant = 3 -> Contest(id, "A", "PendingSystemTest", Some(I64("ZERO", LEAD_SECONDS)), Some("d"))
      [] variant = 4 -> Contest(id, "B", "SystemTest", Some(I64("MAX", 0)), None)
      [] variant = 5 -> Contest(id, "A", "Finished", Some(I64("MIN", 0)), Some("e"))

\* The HashSet<Contest> values over these records: an id at most once.
RecordSets ==
    {r \in SUBSET {Record(id, v) : id \in Ids, v \in Variants} :
        \A a, b \in r : ContestEq(a, b) => a = b}

\* Everything the three steps below leave alone.
aside ==
    <<tmp_file, log_file, exit_code, run, faults, next_new, at_load, pre_save, save_result,
      notified, reminder_failed, handed, last_entry, log_before, panicked, ended_in, previous,
      shared>>

\* main, lines 36-45, on a local and a remote set.
classify ==
    /\ pc \in {"given", "replaced"}
    /\ new_contests' \in IterOrders(NewOf(local_contests, current_upcoming))
    /\ local_upcoming' \in IterOrders(KeptOf(local_contests, current_upcoming))
    /\ pc' = "classified"
    /\ UNCHANGED <<contests_file, local_contests, current_upcoming, serialized, aside>>

\* A record of the local or of the remote set is replaced by another record
\* of the same id; new_contests and local_upcoming are those of main on the
\* sets as they were.
replace_record ==
    /\ pc = "classified"
    /\ \E v \in Variants :
          \/ \E c \in local_contests :
                /\ Record(c.id, v) # c
                /\ local_contests' = (local_contests \ {c}) \cup {Record(c.id, v)}
                /\ UNCHANGED current_upcoming
          \/ \E c \in current_upcoming :
                /\ Record(c.id, v) # c
                /\ current_upcoming' = (current_upcoming \ {c}) \cup {Record(c.id, v)}
                /\ UNCHANGED local_contests
    /\ pc' = "replaced"
    /\ UNCHANGED <<contests_file, new_contests, local_upcoming, serialized, aside>>

\* save_contests_locally(&local_upcoming) returning Ok, then
\* fetch_local_upcoming_contests reading the file back: local_upcoming is
\* the vector saved, local_contests the set loaded.
save_then_load ==
    /\ pc = "given"
    /\ local_contests # {}
    /\ \E vec \in IterOrders(local_contests) :
          /\ local_upcoming' = vec
          /\ serialized' = Serialize(vec)
          /\ contests_file' = Renamed(File(Serialize(vec)), contests_file).live
          /\ IF Loaded(contests_file'.data).ok
             THEN /\ local_contests' = Loaded(contests_file'.data).contests
                  /\ pc' = "loaded"
             ELSE /\ local_contests' = {}
                  /\ pc' = "exited"
    /\ UNCHANGED <<current_upcoming, new_contests, aside>>

\* Any local and any remote set.
InitPure ==
    /\ contests_file = NoFile
    /\ tmp_file = NoFile
    /\ log_file = NoLog
    /\ pc = "given"
    /\ local_contests \in RecordSets
    /\ current_upcoming \in RecordSets
    /\ exit_code = None
    /\ run = 1
    /\ faults = 0
    /\ new_contests = <<>>
    /\ next_new = 1
    /\ local_upcoming = <<>>
    /\ serialized = <<>>
    /\ at_load = NoFile
    /\ pre_save = NoFile
    /\ save_result = "none"
    /\ notified = <<>>
    /\ reminder_failed = FALSE
    /\ handed = None
    /\ last_entry = None
    /\ log_before = NoLog
    /\ panicked = FALSE
    /\ ended_in = ""
    /\ prev_completed = FALSE
    /\ prev_remote = {}
    /\ prev_saved = {}
    /\ prev_unsaved = FALSE
    /\ prev_upcoming = {}
    /\ prev_new = {}
    /\ prev_at_load = NoFile
    /\ prev_faults = 0
    /\ Alone

NextPure ==
    \/ classify
    \/ replace_record
    \/ save_then_load

SpecPure == InitPure /\ [][NextPure]_vars

\* ------------------------------- two instances against the same contests.json

\* The two processes.
Instances == {"a", "b"}

\* Inodes of the file system: one for each of the two paths and one for each
\* descriptor a process may hold on a file that has no path any more.
Inodes == 1..(Cardinality(Instances) + 2)

\* A byte range of a file that was never written (a write past the end of
\* a file that another process truncated leaves it before what it writes).
Hole == [tok |-> "nul"]

\* write(fd) of `chunk` at offset `off` into a file that holds `data`;
\* nothing is written for an empty chunk.
WriteAt(data, off, chunk) ==
    LET padded == IF Len(data) < off
                  THEN data \o [i \in 1..(off - Len(data)) |-> Hole]
                  ELSE data
    IN  IF chunk = <<>>
        THEN data
        ELSE SubSeq(padded, 1, off) \o chunk \o SubSeq(padded, off + Len(chunk) + 1, Len(padded))

\* The inodes a path names or a process holds a descriptor of.
Referenced(pths, insts) == {pths.live, pths.tmp} \cup {insts[p].fd : p \in Instances}

\* An inode that nothing refers to.
FreeInode(pths, insts) == CHOOSE i \in Inodes : i \notin Referenced(pths, insts)

\* The file system frees the inodes that no path names and no descriptor holds.
Sweep(nodes, pths, insts) ==
    [i \in Inodes |-> IF i \in Referenced(pths, insts) THEN nodes[i] ELSE <<>>]

\* File::create(path), the path naming inode `at` (0: the path does not
\* exist): the inode that the path names afterwards, which is empty.
Created(at) == IF at = 0 THEN FreeInode(paths, instances) ELSE at

\* What the remote source reports to an instance.
RemoteOfTwo == {{RemoteContest(id, 1) : id \in S} : S \in SUBSET Ids}

\* A process that has not done anything yet.
Started ==
    [pc |-> "exists", exit |-> None, local |-> {}, vec |-> <<>>, text |-> None, fd |-> 0,
     off |-> 0, seen |-> None, entry |-> None, reminded |-> {}]

\* The process ends: its descriptor is closed, its memory gone. What it
\* read, what it serialized and what it handed to log_error are kept.
Exited(inst, code, entry) ==
    [inst EXCEPT !.pc = "exited", !.exit = Some(code), !.local = {}, !.vec = <<>>, !.fd = 0,
                 !.off = 0, !.entry = entry]

\* A step of instance p that leaves the paths as they are.
Steps(p, inst, nodes) ==
    /\ instances' = [instances EXCEPT ![p] = inst]
    /\ inodes' = Sweep(nodes, paths, instances')
    /\ UNCHANGED <<paths, prior, alone>>

\* fetch_local_upcoming_contests, line 23: path.exists().
path_exists(p) ==
    /\ instances[p].pc = "exists"
    /\ Steps(p, [instances[p] EXCEPT !.pc = IF paths.live = 0 THEN "fs_write" ELSE "read"],
             inodes)

\* fs::write(&path, "[]"), first half: File::create(&path) creates the file
\* or truncates the one another process has put there since.
fs_write_create(p) ==
    /\ instances[p].pc = "fs_write"
    /\ paths' = [paths EXCEPT !.live = Created(paths.live)]
    /\ instances' = [instances EXCEPT ![p] = [@ EXCEPT !.pc = "fs_written", !.fd = paths'.live,
                                                        !.off = 0]]
    /\ inodes' = Sweep([inodes EXCEPT ![paths'.live] = <<>>], paths', instances')
    /\ UNCHANGED <<prior, alone>>

\* fs::write, second half: the text is written and the file closed; the
\* function returns the empty set.
fs_write_write_all(p) ==
    /\ instances[p].pc = "fs_written"
    /\ Steps(p, [instances[p] EXCEPT !.pc = "fetch", !.fd = 0, !.off = 0, !.local = {}],
             [inodes EXCEPT ![instances[p].fd] = WriteAt(@, 0, Serialize(<<>>))])

\* fs::read_to_string(&path) and serde_json::from_str(&contents): a text
\* that does not parse is logged and ends the process with status 1.
read_to_string(p) ==
    /\ instances[p].pc = "read"
    /\ paths.live # 0
    /\ LET contents == inodes[paths.live]
           inst == [instances[p] EXCEPT !.seen = Some(contents)]
       IN  IF Loaded(contents).ok
           THEN Steps(p, [inst EXCEPT !.pc = "fetch", !.local = Loaded(contents).contests],
                      inodes)
           ELSE Steps(p, Exited(inst, EXIT_FAILURE, Some("Failed to parse contests JSON")),
                      inodes)

\* main, lines 34-53: the remote list is fetched, new_contests and
\* local_upcoming are made, a reminder is set for every new contest and
\* the new contests, 30 minutes earlier, are added to local_upcoming.
fetch_and_remind(p) ==
    /\ instances[p].pc = "fetch"
    /\ \E remote \in RemoteOfTwo :
       \E kept \in IterOrders(KeptOf(instances[p].local, remote)) :
       \E new \in IterOrders(NewOf(instances[p].local, remote)) :
          Steps(p, [instances[p] EXCEPT
                       !.pc = "save",
                       !.vec = kept \o [i \in 1..Len(new) |-> Adjusted(new[i])],
                       !.reminded = IdsOf(Elems(new))],
                inodes)

\* save_contests_locally up to File::create(&temp_path): contests.tmp is
\* created, or the contests.tmp that is there is truncated.
file_create(p) ==
    /\ instances[p].pc = "save"
    /\ paths' = [paths EXCEPT !.tmp = Created(paths.tmp)]
    /\ instances' = [instances EXCEPT ![p] =
                        [@ EXCEPT !.pc = "created", !.text = Some(Serialize(instances[p].vec)),
                                  !.fd = paths'.tmp, !.off = 0]]
    /\ inodes' = Sweep([inodes EXCEPT ![paths'.tmp] = <<>>], paths', instances')
    /\ UNCHANGED <<prior, alone>>

\* writer.write_all(data.as_bytes()): the BufWriter keeps the bytes (n = 0)
\* or writes them through to the descriptor, in one write or in two.
writer_write_all(p) ==
    /\ instances[p].pc = "created"
    /\ LET text == instances[p].text[1]
           off == instances[p].off
       IN  \E n \in {0, Len(text) - 1, Len(text)} :
              /\ IF off = 0 THEN TRUE ELSE n > off
              /\ Steps(p, [instances[p] EXCEPT
                              !.pc = IF n = Len(text) - 1 THEN "created" ELSE "buffered",
                              !.off = n],
                       [inodes EXCEPT ![instances[p].fd] =
                           WriteAt(@, off, SubSeq(text, off + 1, n))])

\* writer.flush(): the bytes the BufWriter kept are written.
writer_flush(p) ==
    /\ instances[p].pc = "buffered"
    /\ LET text == instances[p].text[1]
           off == instances[p].off
       IN  Steps(p, [instances[p] EXCEPT !.pc = "flushed", !.off = Len(text)],
                 [inodes EXCEPT ![instances[p].fd] =
                     WriteAt(@, off, SubSeq(text, off + 1, Len(text)))])

\* writer.get_ref().sync_all()
file_sync_all(p) ==
    /\ instances[p].pc = "flushed"
    /\ Steps(p, [instances[p] EXCEPT !.pc = "synced"], inodes)

\* fs::rename(&temp_path, &path), and the return of main: with no
\* contests.tmp the rename fails, the failure is logged and main returns.
fs_rename(p) ==
    /\ instances[p].pc = "synced"
    /\ IF paths.tmp = 0
       THEN /\ paths' = paths
            /\ instances' = [instances EXCEPT ![p] =
                   Exited(@, EXIT_SUCCESS, Some("Failed to save local contests atomically"))]
       ELSE /\ paths' = [live |-> paths.tmp, tmp |-> 0]
            /\ instances' = [instances EXCEPT ![p] = Exited(@, EXIT_SUCCESS, instances[p].entry)]
    /\ inodes' = Sweep(inodes, paths', instances')
    /\ UNCHANGED <<prior, alone>>

\* What contests.json may hold before the two instances start.
PriorFiles ==
    {NoFile, File(Serialize(<<>>)), File(Serialize(<<Adjusted(RemoteContest(1, 1))>>))}

\* Two instances are started, and neither has taken a step.
InitTwo ==
    /\ contests_file = NoFile
    /\ tmp_file = NoFile
    /\ log_file = NoLog
    /\ pc = "two"
    /\ Fresh
    /\ prior \in PriorFiles
    /\ paths = [live |-> IF prior.exists THEN 1 ELSE 0, tmp |-> 0]
    /\ inodes = [i \in Inodes |-> IF i = 1 THEN prior.data ELSE <<>>]
    /\ instances = [p \in Instances |-> Started]

NextTwo ==
    \E p \in Instances :
        \/ path_exists(p)
        \/ fs_write_create(p)
        \/ fs_write_write_all(p)
        \/ read_to_string(p)
        \/ fetch_and_remind(p)
        \/ file_create(p)
        \/ writer_write_all(p)
        \/ writer_flush(p)
        \/ file_sync_all(p)
        \/ fs_rename(p)

SpecTwo == InitTwo /\ [][NextTwo]_vars

\* ------------------------------------------------------------------ claims

SavingPcs == {"created", "buffered", "flushed", "synced"}

\* main has reconciled: new_contests and local_upcoming hold what lines 36-45
\* computed, and the process was not killed.
Reconciled ==
    \/ pc \in {"notify"} \cup SavingPcs
    \/ pc = "exited" /\ ended_in \in {"notify"} \cup SavingPcs

\* fetch_local_upcoming_contests has returned to main.
LoadReturned ==
    \/ pc \in {"fetch", "reconcile", "notify"} \cup SavingPcs
    \/ pc = "exited" /\ ended_in # "load"

\* The contests main kept from local_contests: local_upcoming without the
\* new contests the for loop has pushed so far.
KeptPart == SubSeq(local_upcoming, 1, Len(local_upcoming) - (next_new - 1))

\* error_log.txt after a call of log_error that returned, given the file
\* before the call.
AfterAppend(before) ==
    [exists |-> TRUE,
     lines |-> (IF before.exists /\ LineCount(before) <= LOG_MAX_LINE_NUMBER
                THEN before.lines ELSE 0) + 1,
     torn |-> FALSE]

\* C1: from the call of save_contests_locally up to the rename, whatever
\* happens (an error at any step, the process killed after any step or
\* inside a write), contests.json holds exactly what it held when save was
\* called; once the rename has happened it holds exactly the complete new
\* serialization.
C1_LivePathOldOrNew ==
    /\ save_result \in {"running", "err"} => contests_file = pre_save
    /\ save_result = "ok" => contests_file = File(Serialize(local_upcoming))

\* C1: the process was killed inside the write of the temporary file, which
\* holds a part of the new text, while contests.json held contests.
C1_Witness ==
    /\ pc = "killed"
    /\ save_result = "running"
    /\ tmp_file.exists
    /\ Len(tmp_file.data) > 0
    /\ ~Parses(tmp_file.data)
    /\ Parses(pre_save.data)
    /\ Len(pre_save.data) > 2

\* C2: when a step of save_contests_locally fails the process leaves the
\* save with Err, which main logs, and contests.json is what it was before
\* the call; when it returns Ok, contests.json parses to exactly the
\* contests passed in, each once.
C2_ErrUnchangedOkSaved ==
    /\ (pc = "exited" /\ ended_in \in {"created", "buffered", "flushed"}) => save_result = "err"
    /\ (pc = "exited" /\ ended_in = "synced") => save_result \in {"ok", "err"}
    /\ save_result = "err" =>
          /\ pc = "exited"
          /\ contests_file = pre_save
          /\ last_entry = Some(<<"Failed to save local contests atomically", 0>>)
    /\ save_result = "ok" =>
          /\ pc = "exited"
          /\ Parses(contests_file.data)
          /\ Deserialize(contests_file.data) = Elems(local_upcoming)
          /\ Len(contests_file.data) = Len(local_upcoming) + 2

\* C2: the rename itself failed; contests.json held contests and the
\* temporary file holds other ones.
C2_Witness ==
    /\ save_result = "err"
    /\ ended_in = "synced"
    /\ Len(pre_save.data) > 2
    /\ tmp_file.data = serialized
    /\ tmp_file.data # pre_save.data

\* C3: when the previous run completed and persisted P, and this run
\* fetches a remote set with the same ids, this run finds no new contest,
\* attempts no notification, keeps exactly the records of P (every field,
\* the adjusted start time included), and persists exactly them.
C3_Idempotent ==
    (prev_completed /\ Reconciled /\ IdsOf(current_upcoming) = prev_remote) =>
        /\ new_contests = <<>>
        /\ notified = <<>>
        /\ Elems(local_upcoming) = prev_saved
        /\ Len(local_upcoming) = Cardinality(prev_saved)
        /\ save_result = "ok" => Deserialize(contests_file.data) = prev_saved

\* C3: a second cycle completed against the same remote set; P holds a
\* contest with an adjusted start time and one without a start time.
C3_Witness ==
    /\ prev_completed
    /\ save_result = "ok"
    /\ IdsOf(current_upcoming) = prev_remote
    /\ \E c \in prev_saved : c.start_time_seconds = Some(I64("ZERO", LEAD_SECONDS))
    /\ \E c \in prev_saved : c.start_time_seconds = None

\* C4: new has exactly the ids of remote minus local, kept exactly the ids
\* of local intersect remote, the two are disjoint by id, and the vector
\* handed to save has exactly the ids of remote, each once (so an empty
\* remote set persists an empty array).
C4_Partition ==
    Reconciled =>
        /\ IdsOf(Elems(new_contests)) = IdsOf(current_upcoming) \ IdsOf(local_contests)
        /\ Len(new_contests) = Cardinality(IdsOf(Elems(new_contests)))
        /\ IdsOf(Elems(KeptPart)) = IdsOf(local_contests) \cap IdsOf(current_upcoming)
        /\ IdsOf(Elems(new_contests)) \cap IdsOf(Elems(KeptPart)) = {}
        /\ save_result # "none" =>
              /\ IdsOf(Elems(local_upcoming)) = IdsOf(current_upcoming)
              /\ Len(local_upcoming) = Cardinality(IdsOf(current_upcoming))
        /\ (save_result = "ok" /\ current_upcoming = {}) =>
              contests_file.data = <<ArrayOpen, ArrayClose>>

\* C4: a cycle completed with a new contest and a kept one.
C4_Witness ==
    /\ save_result = "ok"
    /\ Len(new_contests) > 0
    /\ Len(local_upcoming) > Len(new_contests)

\* C5: a contest whose id is in local and not in remote is not in new, not
\* in kept, is not notified, and is not in the vector passed to save nor in
\* contests.json after the save.
C5_Expiry ==
    Reconciled =>
        \A c \in local_contests :
            c.id \notin IdsOf(current_upcoming) =>
                /\ c.id \notin IdsOf(Elems(new_contests))
                /\ c.id \notin IdsOf(Elems(local_upcoming))
                /\ c.id \notin IdsOf(Elems(notified))
                /\ save_result # "none" =>
                      \A i \in 1..Len(serialized) :
                          serialized[i].tok = "object" => serialized[i].id # c.id
                /\ save_result = "ok" => c.id \notin IdsOf(Deserialize(contests_file.data))

\* C5: a cycle completed in which a local contest had expired while another
\* contest was upcoming.
C5_Witness ==
    /\ save_result = "ok"
    /\ current_upcoming # {}
    /\ \E c \in local_contests : c.id \notin IdsOf(current_upcoming)

\* C6: when fetch_local_upcoming_contests returns, it returns the contests
\* of the file it found, and the empty set only for no file or an empty
\* array; when the file is there and cannot be read or parsed the failure
\* is handed to log_error and the process ends with a non-zero status
\* before any fetch, notification or save.
C6_LoadNeverDefaults ==
    /\ LoadReturned =>
          /\ at_load.exists =>
                /\ Parses(at_load.data)
                /\ local_contests = Deserialize(at_load.data)
          /\ local_contests = {} => (~at_load.exists \/ at_load.data = <<ArrayOpen, ArrayClose>>)
    /\ (at_load.exists /\ ~Parses(at_load.data)) => (pc = "exited" /\ ended_in = "load")
    /\ (pc = "exited" /\ ended_in = "load") =>
          /\ exit_code \in {Some(EXIT_FAILURE), Some(EXIT_PANIC)}
          /\ last_entry # None
          /\ current_upcoming = {}
          /\ notified = <<>>
          /\ save_result = "none"

\* C6: the file was there and did not parse; the failure was logged and the
\* process exited with status 1.
C6_Witness ==
    /\ at_load.exists
    /\ ~Parses(at_load.data)
    /\ pc = "exited"
    /\ exit_code = Some(EXIT_FAILURE)
    /\ last_entry = Some(<<"Failed to parse contests JSON", 0>>)
    /\ ~panicked

\* C7: a run ends with exit status 0 exactly when the cycle completed, that
\* is when save_contests_locally returned Ok; a failed save ends it with a
\* non-zero status.
C7_ExitZeroIffCompleted ==
    pc = "exited" => ((exit_code = Some(EXIT_SUCCESS)) <=> (save_result = "ok"))

C9_FailedReminderStillSaves ==
    (pc = "exited" /\ reminder_failed) => save_result # "none"

LoopOver ==
    \/ pc \in SavingPcs
    \/ pc = "exited" /\ ended_in \in {"notify"} \cup SavingPcs

\* How many times osascript was run for the id.
Dispatches(id) == Cardinality({j \in 1..Len(notified) : notified[j].id = id})

\* C12: in one cycle osascript is run exactly once for each new record that
\* has a start time and never for another record (a kept one, an expired
\* one, a new one without a start time).
C12_OncePerNewWithStart ==
    LoopOver =>
        /\ \A i \in 1..Len(new_contests) :
              Dispatches(new_contests[i].id) =
                  IF new_contests[i].start_time_seconds = None THEN 0 ELSE 1
        /\ \A j \in 1..Len(notified) : notified[j].id \in IdsOf(Elems(new_contests))

\* The contests.json a run that found none has made: absent still, or
\* holding no record.
HoldsNoRecord(file) ==
    \/ ~file.exists
    \/ ~Parses(file.data)
    \/ Deserialize(file.data) = {}

\* C13: a failed fetch is handed to log_error and ends the process with a
\* non-zero status, whatever the failure; the process never goes on with an
\* empty or default set: nothing was classified, osascript was not run,
\* save_contests_locally was not called, and contests.json holds the records
\* it held before the run.
C13_FetchFailureIsFatal ==
    /\ (last_entry # None /\ last_entry[1][1] \in FetchFailures) =>
          (pc = "exited" /\ ended_in = "fetch")
    /\ (pc = "exited" /\ ended_in = "fetch") =>
          /\ last_entry # None
          /\ last_entry[1][1] \in FetchFailures
          /\ exit_code \in {Some(EXIT_FAILURE), Some(EXIT_PANIC)}
          /\ current_upcoming = {}
          /\ new_contests = <<>>
          /\ local_upcoming = <<>>
          /\ notified = <<>>
          /\ handed = None
          /\ save_result = "none"
          /\ at_load.exists => contests_file = at_load
          /\ ~at_load.exists => HoldsNoRecord(contests_file)

\* C13: the fetch failed in a run that had loaded records; the failure was
\* logged and the process exited with status 1.
C13_Witness ==
    /\ pc = "exited"
    /\ ended_in = "fetch"
    /\ exit_code = Some(EXIT_FAILURE)
    /\ ~panicked
    /\ local_contests # {}
    /\ contests_file = at_load

\* The records of a contests.json that can be loaded.
RecordsOf(file) == IF file.exists THEN Deserialize(file.data) ELSE {}

\* C16: when the previous run finished its for loop and did not save (its
\* save failed, or it was killed before the rename), contests.json still
\* holds the records it held before that run, so this run, fetching the same
\* remote set, loads them, classifies the same ids as new and runs osascript
\* again for each of them (that has a start time). This run meets no fault
\* of its own.
C16_UnsavedCycleRepeats ==
    (prev_unsaved /\ faults = prev_faults /\ pc # "load") =>
        /\ LoadReturned
        /\ at_load.exists => Parses(at_load.data)
        /\ RecordsOf(at_load) = RecordsOf(prev_at_load)
        /\ (Reconciled /\ current_upcoming = prev_upcoming) =>
              /\ IdsOf(Elems(new_contests)) = prev_new
              /\ LoopOver =>
                    \A i \in 1..Len(new_contests) :
                        new_contests[i].start_time_seconds # None =>
                            Dispatches(new_contests[i].id) = 1

\* C20: when the process is killed, at whatever point of a run that met no
\* other fault, contests.json is afterwards absent or a complete array of
\* records that the next load can parse.
C20_KilledLeavesUsableFile ==
    (pc = "killed" /\ faults = prev_faults + 1) =>
        (~contests_file.exists \/ Parses(contests_file.data))

\* The remote record with its start time 1800 seconds earlier, as a number;
\* an absent start time stays absent.
Earlier(contest) ==
    IF contest.start_time_seconds = None
    THEN contest
    ELSE [contest EXCEPT !.start_time_seconds = Some(Minus(@[1], LEAD_SECONDS))]

\* C17: the record passed to create_reminder is a new record with the id,
\* name, phase and description the remote reported and the remote start
\* time minus 1800; the vector passed to save, and contests.json after the
\* save, hold that same record for every new record; and the id being
\* untouched, the next cycle does not classify it as new.
C17_HandedIsRemoteMinusLead ==
    /\ (Reconciled /\ handed # None) =>
          \E i \in 1..Len(new_contests) : handed[1] = Earlier(new_contests[i])
    /\ (Reconciled /\ save_result # "none") =>
          \A i \in 1..Len(new_contests) : Earlier(new_contests[i]) \in Elems(local_upcoming)
    /\ (Reconciled /\ save_result = "ok") =>
          \A i \in 1..Len(new_contests) :
              Earlier(new_contests[i]) \in Deserialize(contests_file.data)
    /\ (prev_completed /\ Reconciled) =>
          \A c \in prev_saved : c.id \notin IdsOf(Elems(new_contests))

\* C18: every new record is in the vector passed to save, whatever became
\* of its notification (osascript run and succeeded, run and failed, not
\* run for lack of a start time); and an id that the previous successful
\* cycle persisted and that is still in the remote set is not new again and
\* gets no notification attempt, also when its stored record has no start
\* time and the remote record now has one.
C18_NewSavedNeverRetried ==
    /\ (Reconciled /\ save_result # "none") =>
          /\ \A i \in 1..Len(new_contests) : Adjusted(new_contests[i]) \in Elems(local_upcoming)
          /\ Len(local_upcoming) = Len(KeptPart) + Len(new_contests)
    /\ (prev_completed /\ Reconciled) =>
          \A c \in prev_saved :
              c.id \in IdsOf(current_upcoming) =>
                  /\ c.id \notin IdsOf(Elems(new_contests))
                  /\ Dispatches(c.id) = 0
                  /\ handed # None => handed[1].id # c.id

\* C18: a cycle completed after one that persisted a record without a start
\* time (its notification was skipped); the remote record now has a start
\* time, and osascript was not run for it.
C18_Witness ==
    /\ prev_completed
    /\ save_result = "ok"
    /\ \E c \in prev_saved :
          /\ c.start_time_seconds = None
          /\ \E r \in current_upcoming : r.id = c.id /\ r.start_time_seconds # None
          /\ Dispatches(c.id) = 0

\* C19: a record the previous successful cycle persisted, whose id is still
\* in the remote set, is kept with exactly the stored name, phase,
\* description and start time (no second subtraction), whatever the remote
\* reports for it now, and is persisted so again, once.
C19_KeptCarryStoredValues ==
    (prev_completed /\ Reconciled) =>
        \A c \in prev_saved :
            c.id \in IdsOf(current_upcoming) =>
                /\ c \in Elems(KeptPart)
                /\ save_result # "none" =>
                      {x \in Elems(local_upcoming) : x.id = c.id} = {c}
                /\ save_result = "ok" =>
                      {x \in Deserialize(contests_file.data) : x.id = c.id} = {c}

\* C19: a cycle completed in which the remote reported another name,
\* description and start time for a record stored with its start time
\* already adjusted.
C19_Witness ==
    /\ prev_completed
    /\ save_result = "ok"
    /\ \E c \in prev_saved :
          /\ c.start_time_seconds = Some(I64("ZERO", LEAD_SECONDS))
          /\ \E r \in current_upcoming :
                /\ r.id = c.id
                /\ r.name # c.name
                /\ r.description # c.description
                /\ r.start_time_seconds = None
          /\ c \in Deserialize(contests_file.data)

\* C14: replacing a record of the local or of the remote set by another of
\* the same id (other name, phase, start time, description) leaves the ids
\* classified as new and as kept what they were; an id on both sides is
\* kept and not new; and a remote record is kept only for a local record of
\* its own id, however alike the others are.
C14_IdentityOnly ==
    /\ [](pc = "classified" =>
            /\ \A r \in current_upcoming :
                  IF r.id \in IdsOf(local_contests)
                  THEN /\ r.id \in IdsOf(Elems(local_upcoming))
                       /\ r.id \notin IdsOf(Elems(new_contests))
                  ELSE /\ r.id \in IdsOf(Elems(new_contests))
                       /\ r.id \notin IdsOf(Elems(local_upcoming))
            /\ \A l \in local_contests :
                  l.id \notin IdsOf(current_upcoming) =>
                      l.id \notin IdsOf(Elems(local_upcoming)) \cup IdsOf(Elems(new_contests)))
    /\ [][(pc = "replaced" /\ pc' = "classified") =>
            /\ IdsOf(Elems(new_contests')) = IdsOf(Elems(new_contests))
            /\ IdsOf(Elems(local_upcoming')) = IdsOf(Elems(local_upcoming))]_vars

\* C14: the sets were classified again after a replacement; an id is kept
\* whose local and remote records differ in name, phase, start time and
\* description, and an id is new whose remote record equals, but for the id,
\* a local record.
C14_Witness ==
    /\ pc = "classified"
    /\ \E l \in local_contests, r \in current_upcoming :
          /\ l.id = r.id
          /\ l.name # r.name
          /\ l.phase # r.phase
          /\ l.start_time_seconds # r.start_time_seconds
          /\ l.description # r.description
          /\ l \in Elems(local_upcoming)
    /\ \E l \in local_contests, r \in current_upcoming :
          /\ l.id # r.id
          /\ [l EXCEPT !.id = r.id] = r
          /\ r \in Elems(new_contests)

\* C15: a non-empty collection of records with distinct ids, saved and
\* loaded, comes back with the same ids and every record with the name,
\* phase, start time and description it was saved with, absent ones
\* absent; the load does not fail.
C15_RoundTrip ==
    /\ pc # "exited"
    /\ pc = "loaded" =>
          /\ local_contests = Elems(local_upcoming)
          /\ IdsOf(local_contests) = IdsOf(Elems(local_upcoming))
          /\ Cardinality(local_contests) = Len(local_upcoming)

\* C15: a collection came back that holds every phase but one, a record
\* with a start time and no description and one without start time.
C15_Witness ==
    /\ pc = "loaded"
    /\ Cardinality(local_contests) = MaxId
    /\ \E c \in local_contests : c.start_time_seconds = None /\ c.description # None
    /\ \E c \in local_contests : c.start_time_seconds # None /\ c.description = None

\* The texts of contests.json that are complete: what it held before the
\* two instances started, the "[]" of a first run, and what an instance
\* has serialized.
CompleteTexts ==
    {prior.data : x \in {y \in {1} : prior.exists}}
        \cup {Serialize(<<>>) : x \in {y \in {1} : ~prior.exists}}
        \cup {instances[p].text[1] : p \in {q \in Instances : instances[q].text # None}}

\* C11: with two instances running against a contests.json that was there
\* before they started, contests.json holds a complete text at every
\* moment (what it held before, or what one instance serialized), so that
\* any reader reads one, and what an instance has read from it is a
\* complete text.
C11_NoTornLiveFile ==
    prior.exists =>
        /\ paths.live # 0
        /\ inodes[paths.live] \in CompleteTexts
        /\ \A p \in Instances :
              instances[p].seen # None => instances[p].seen[1] \in CompleteTexts

====
